---- MODULE Spec2Model ----
(***************************************************************************)
(* Model of app.py: the date normaliser (formatar_data), the file-name     *)
(* sanitiser (validar_nome_arquivo), the split pipeline (dividir_pdf), the *)
(* rename tab of main() and the merge (juntar_pdfs).                       *)
(*                                                                         *)
(* Python strings are sequences of one-character strings.  A Python value  *)
(* is a record [t, v]: t = "none" (None), "str" (v a character sequence)    *)
(* or "num" (v an integer).                                                 *)
(***************************************************************************)
EXTENDS Integers, Sequences, FiniteSets, TLC

VARIABLES
    pc,               \* position of the invocation
    data_str,         \* formatar_data: argument
    data_fmt,         \* formatar_data: outcome [exc, v]
    nome,             \* validar_nome_arquivo: argument
    nome_limpo,       \* validar_nome_arquivo: result
    total_paginas,    \* dividir_pdf: len(pdf_reader.pages)
    opcoes_divisao,   \* dividir_pdf: the options record
    usar_ia,          \* dividir_pdf: usar_ia and modelo
    cursor,           \* dividir_pdf / rename: index of the next loop iteration
    pdfs_divididos,   \* dividir_pdf: list of (nome_arquivo, output_bytes)
    avisos,           \* st.warning calls so far (the entries warned about)
    respostas,        \* what the extraction service answered, per call
    retorno,          \* dividir_pdf: the returned pair
    arquivos_aso,     \* rename tab: the uploaded files, each a stream
    todos_resultados, \* rename tab: list of (nome, bytes)
    origens,          \* rename tab: index of the uploaded file each result was made from
    thumbnails,       \* rename tab, manual mode: what criar_thumbnail_pdf returned
    arquivos_juntar,  \* merge tab: the uploaded files, each a stream
    merger,           \* juntar_pdfs: the pages appended to the PdfMerger
    pdf_final         \* juntar_pdfs: the returned value

vars == << pc, data_str, data_fmt, nome, nome_limpo, total_paginas,
           opcoes_divisao, usar_ia, cursor, pdfs_divididos, avisos,
           respostas, retorno, arquivos_aso, todos_resultados, origens,
           thumbnails, arquivos_juntar, merger, pdf_final >>

----------------------------------------------------------------------------
(* Python values and strings *)

None == [t |-> "none", v |-> <<>>]
PyStr(s) == [t |-> "str", v |-> s]
PyNum(n) == [t |-> "num", v |-> n]

Digits == <<"0", "1", "2", "3", "4", "5", "6", "7", "8", "9">>
IsDigit(c) == \E k \in 1..10 : Digits[k] = c
DigitVal(c) == (CHOOSE k \in 1..10 : Digits[k] = c) - 1

\* the characters \s matches (and str.strip / int() skip) among those used
IsSpace(c) == c \in {" ", "\t"}

RECURSIVE NumVal(_)
NumVal(s) == IF s = <<>> THEN 0
             ELSE 10 * NumVal(SubSeq(s, 1, Len(s) - 1)) + DigitVal(s[Len(s)])

AllDigits(s) == \A k \in 1..Len(s) : IsDigit(s[k])

\* str(n) for n >= 0
RECURSIVE IntToStr(_)
IntToStr(n) == IF n < 10 THEN <<Digits[n + 1]>>
               ELSE IntToStr(n \div 10) \o <<Digits[(n % 10) + 1]>>

\* '%02d' % n
Pad2(n) == IF n < 10 THEN <<"0">> \o IntToStr(n) ELSE IntToStr(n)

\* '%04d' % n
Pad4(n) == IF n < 10 THEN <<"0", "0", "0">> \o IntToStr(n)
           ELSE IF n < 100 THEN <<"0", "0">> \o IntToStr(n)
           ELSE IF n < 1000 THEN <<"0">> \o IntToStr(n)
           ELSE IntToStr(n)

\* s.replace(a, b) for single characters
Replace(s, a, b) == [k \in 1..Len(s) |-> IF s[k] = a THEN b ELSE s[k]]

Contains(s, c) == \E k \in 1..Len(s) : s[k] = c

\* position of the first c in s, 0 when absent
IndexOf(s, c) == IF Contains(s, c)
                 THEN CHOOSE k \in 1..Len(s) : s[k] = c /\ \A j \in 1..(k - 1) : s[j] # c
                 ELSE 0

\* s.split(c)
RECURSIVE Split(_, _)
Split(s, c) == IF ~Contains(s, c) THEN <<s>>
               ELSE <<SubSeq(s, 1, IndexOf(s, c) - 1)>>
                    \o Split(SubSeq(s, IndexOf(s, c) + 1, Len(s)), c)

----------------------------------------------------------------------------
(* datetime.strptime / strftime as formatar_data uses them *)

DATA_SENTINELA == <<"D", "D", "M", "M", "Y", "Y", "Y", "Y">>

formatos_possiveis ==
    << <<"%d", "/", "%m", "/", "%Y">>,
       <<"%d", "-", "%m", "-", "%Y">>,
       <<"%Y", "-", "%m", "-", "%d">>,
       <<"%d", "/", "%m", "/", "%y">>,
       <<"%d", "-", "%m", "-", "%y">>,
       <<"%-d", "/", "%-m", "/", "%Y">>,
       <<"%-d", "/", "%-m", "/", "%y">> >>

\* the directives _strptime knows, of those the formats use
KnownDirective(d) == d \in {"%d", "%m", "%Y", "%y"}

\* does the whole of piece match the directive's regular expression?
\*   %d  3[0-1]|[1-2]\d|0[1-9]|[1-9]| [1-9]     %m  1[0-2]|0[1-9]|[1-9]
\*   %Y  \d\d\d\d                                %y  \d\d
DirectiveMatches(d, piece) ==
    CASE d = "%d" ->
            \/ /\ Len(piece) = 2 /\ AllDigits(piece)
               /\ NumVal(piece) >= 1 /\ NumVal(piece) <= 31
            \/ /\ Len(piece) = 1 /\ AllDigits(piece) /\ NumVal(piece) >= 1
            \/ /\ Len(piece) = 2 /\ piece[1] = " " /\ IsDigit(piece[2])
               /\ DigitVal(piece[2]) >= 1
      [] d = "%m" ->
            \/ /\ Len(piece) = 2 /\ AllDigits(piece)
               /\ NumVal(piece) >= 1 /\ NumVal(piece) <= 12
            \/ /\ Len(piece) = 1 /\ AllDigits(piece) /\ NumVal(piece) >= 1
      [] d = "%Y" -> Len(piece) = 4 /\ AllDigits(piece)
      [] d = "%y" -> Len(piece) = 2 /\ AllDigits(piece)
      [] OTHER -> FALSE

\* the integer a matched piece stands for (%y: 69..99 -> 19xx, 00..68 -> 20xx)
DirectiveValue(d, piece) ==
    CASE d = "%d" -> IF piece[1] = " " THEN DigitVal(piece[2]) ELSE NumVal(piece)
      [] d = "%y" -> IF NumVal(piece) < 69 THEN 2000 + NumVal(piece)
                     ELSE 1900 + NumVal(piece)
      [] OTHER -> NumVal(piece)

IsLeap(y) == (y % 4 = 0) /\ ((y % 100 # 0) \/ (y % 400 = 0))

DaysInMonth(y, m) ==
    IF m = 2 THEN (IF IsLeap(y) THEN 29 ELSE 28)
    ELSE IF m \in {4, 6, 9, 11} THEN 30 ELSE 31

\* datetime(y, m, d) accepts
ValidDate(y, m, d) ==
    /\ y >= 1 /\ y <= 9999
    /\ m >= 1 /\ m <= 12
    /\ d >= 1 /\ d <= DaysInMonth(y, m)

FieldOf(formato, pieces, d1, d2) ==
    IF formato[1] \in {d1, d2} THEN DirectiveValue(formato[1], pieces[1])
    ELSE IF formato[3] \in {d1, d2} THEN DirectiveValue(formato[3], pieces[2])
    ELSE DirectiveValue(formato[5], pieces[3])

\* datetime.strptime(s, formato): [ok |-> FALSE] stands for ValueError
StrpTime(s, formato) ==
    LET pieces == Split(s, formato[2])
        shape  == /\ KnownDirective(formato[1])
                  /\ KnownDirective(formato[3])
                  /\ KnownDirective(formato[5])
                  /\ Len(pieces) = 3
                  /\ DirectiveMatches(formato[1], pieces[1])
                  /\ DirectiveMatches(formato[3], pieces[2])
                  /\ DirectiveMatches(formato[5], pieces[3])
    IN  IF ~shape THEN [ok |-> FALSE, year |-> 0, month |-> 0, day |-> 0]
        ELSE LET y == FieldOf(formato, pieces, "%Y", "%y")
                 m == FieldOf(formato, pieces, "%m", "%m")
                 d == FieldOf(formato, pieces, "%d", "%d")
             IN  [ok |-> ValidDate(y, m, d), year |-> y, month |-> m, day |-> d]

\* data_obj.strftime('%d%m%Y'); the C library pads %Y to four digits on
\* some platforms and prints the bare number on others
StrfTime(dt, libc_pads_year) ==
    Pad2(dt.day) \o Pad2(dt.month)
        \o (IF libc_pads_year THEN Pad4(dt.year) ELSE IntToStr(dt.year))

----------------------------------------------------------------------------
(* formatar_data, app.py 59-92 *)

Returned(s) == [exc |-> "none", v |-> s]
Raised(e) == [exc |-> e, v |-> <<>>]

\* `not data_str`
Falsy(x) == x.t = "none" \/ (x.t = "str" /\ x.v = <<>>) \/ (x.t = "num" /\ x.v = 0)

\* line 77-78: every '-' becomes '/' on the first pass of the loop, before
\* the first strptime, and data_str stays rewritten for the later formats
NormalizaSeparador(s) == IF Contains(s, "-") THEN Replace(s, "-", "/") ELSE s

\* lines 84-85
GaranteAno(dt) == IF dt.year < 100 THEN [dt EXCEPT !.year = dt.year + 2000] ELSE dt

\* lines 74-92: the first format, in list order, that parses wins
RECURSIVE TentaFormatos(_, _, _)
TentaFormatos(s, k, libc_pads_year) ==
    IF k > Len(formatos_possiveis) THEN DATA_SENTINELA
    ELSE LET dt == StrpTime(s, formatos_possiveis[k])
         IN  IF dt.ok /\ ValidDate(GaranteAno(dt).year, dt.month, dt.day)
             THEN StrfTime(GaranteAno(dt), libc_pads_year)
             ELSE TentaFormatos(s, k + 1, libc_pads_year)

formatar_data(x, libc_pads_year) ==
    IF Falsy(x) THEN Returned(DATA_SENTINELA)
    ELSE IF x.t # "str" THEN Raised("TypeError")   \* re.sub on a non-string, line 65
    ELSE Returned(TentaFormatos(NormalizaSeparador(x.v), 1, libc_pads_year))

----------------------------------------------------------------------------
(* validar_nome_arquivo, app.py 94-103 *)

max_length == 240

\* the character class [<>:"/\\|?*]
CaractereIlegal(c) == c \in {"<", ">", ":", "\"", "/", "\\", "|", "?", "*"}

Legal(c) == ~CaractereIlegal(c)

\* re.sub(r'[<>:"/\\|?*]', '', nome)
RemoveIlegais(s) == SelectSeq(s, Legal)

\* re.sub(r'\s+', ' ', s): each maximal run of whitespace becomes one ' '
Marcado(s) == [k \in 1..Len(s) |->
                 [c |-> IF IsSpace(s[k]) THEN " " ELSE s[k],
                  primeiro |-> ~IsSpace(s[k]) \/ k = 1 \/ ~IsSpace(s[k - 1])]]

Primeiro(e) == e.primeiro

ColapsaEspacos(s) ==
    LET kept == SelectSeq(Marcado(s), Primeiro)
    IN  [k \in 1..Len(kept) |-> kept[k].c]

\* str.strip()
Strip(s) ==
    IF \A k \in 1..Len(s) : IsSpace(s[k]) THEN <<>>
    ELSE LET a == CHOOSE k \in 1..Len(s) :
                    ~IsSpace(s[k]) /\ \A j \in 1..(k - 1) : IsSpace(s[j])
             b == CHOOSE k \in 1..Len(s) :
                    ~IsSpace(s[k]) /\ \A j \in (k + 1)..Len(s) : IsSpace(s[j])
         IN  SubSeq(s, a, b)

\* lines 99-101: nome_limpo[:max_length]
Trunca(s) == IF Len(s) > max_length THEN SubSeq(s, 1, max_length) ELSE s

validar_nome_arquivo(s) == Trunca(Strip(ColapsaEspacos(RemoveIlegais(s))))

----------------------------------------------------------------------------
(* the extraction service and extrair_informacoes_gemini, app.py 29-57 *)

\* A response of the service: the call raises, or answers a text that is
\* not JSON, or a text json.loads accepts; dados is then the parsed value:
\* t = "dict" (with or without the keys nome and data) or another JSON type.
Dict(tem_nome, n, tem_data, d) ==
    [t |-> "dict", tem_nome |-> tem_nome, nome |-> n, tem_data |-> tem_data, data |-> d]
NaoDict(t) == [t |-> t, tem_nome |-> FALSE, nome |-> None, tem_data |-> FALSE, data |-> None]

Resposta(kind, dados) == [kind |-> kind, dados |-> dados]

\* line 57: {"nome": None, "data": None}
DADOS_VAZIOS == Dict(TRUE, None, TRUE, None)

\* lines 45-57: every exception of the call or of json.loads is caught;
\* whatever json.loads returns is returned as it is
extrair_informacoes_gemini(resp) ==
    IF resp.kind \in {"raise", "not_json"} THEN DADOS_VAZIOS ELSE resp.dados

INDEFINIDO == <<"I", "N", "D", "E", "F", "I", "N", "I", "D", "O">>
ASO == <<"A", "S", "O">>
PDF == <<".", "p", "d", "f">>

\* dados.get('nome', 'INDEFINIDO') and dados.get('data')
GetNome(dados) == IF dados.tem_nome THEN dados.nome ELSE PyStr(INDEFINIDO)
GetData(dados) == IF dados.tem_data THEN dados.data ELSE None

\* nome_funcionario not in [None, 'INDEFINIDO'] and data_exame != "DDMMYYYY"
Aproveitavel(nome_funcionario, data_exame) ==
    /\ nome_funcionario \notin {None, PyStr(INDEFINIDO)}
    /\ data_exame # DATA_SENTINELA

\* f"ASO {data_exame} {nome_funcionario}"
NomeASO(data_exame, nome_funcionario) ==
    ASO \o <<" ">> \o data_exame \o <<" ">> \o nome_funcionario.v

\* lines 127-136 (and 153-162, 176-185, 201-210): the name of one unit of
\* dividir_pdf; an exception of dados.get or formatar_data leaves the loop
nome_arquivo(ia, resp, nome_padrao, libc_pads_year) ==
    IF ~ia THEN Returned(nome_padrao \o PDF)
    ELSE LET dados == extrair_informacoes_gemini(resp)
         IN  IF dados.t # "dict" THEN Raised("AttributeError")
             ELSE LET data_exame == formatar_data(GetData(dados), libc_pads_year)
                  IN  IF data_exame.exc # "none" THEN data_exame
                      ELSE IF Aproveitavel(GetNome(dados), data_exame.v)
                           THEN Returned(NomeASO(data_exame.v, GetNome(dados)) \o PDF)
                           ELSE Returned(nome_padrao \o PDF)

\* lines 433-441: the name of one file of the batch rename; Descartado when
\* the condition of line 438 fails and nothing is appended
Descartado == [exc |-> "descartado", v |-> <<>>]

novo_nome(resp, libc_pads_year) ==
    LET dados == extrair_informacoes_gemini(resp)
    IN  IF dados.t # "dict" THEN Raised("AttributeError")
        ELSE LET data_exame == formatar_data(GetData(dados), libc_pads_year)
             IN  IF data_exame.exc # "none" THEN data_exame
                 ELSE IF Aproveitavel(GetNome(dados), data_exame.v)
                      THEN Returned(validar_nome_arquivo(
                                        NomeASO(data_exame.v, GetNome(dados))))
                      ELSE Descartado

\* line 309-311
renomear_arquivo(arquivo_bytes, nome_novo) ==
    [nome |-> nome_novo \o PDF, conteudo |-> arquivo_bytes]

----------------------------------------------------------------------------
(* dividir_pdf, app.py 105-219 *)

Min(a, b) == IF a < b THEN a ELSE b

\* pdf_reader.pages[a .. b-1] written to one output: the 1-based page numbers
Paginas(a, b) == [k \in 1..(b - a) |-> a + k]

\* the end of a group without clamping to the last page
FimDoGrupoSemMin(i, paginas_por_arquivo, total) == i + paginas_por_arquivo

\* line 118
FimDoGrupo(i, paginas_por_arquivo, total) == Min(i + paginas_por_arquivo, total)

\* int(s): surrounding whitespace and one sign are accepted
PyInt(s) ==
    LET u == Strip(s)
        sinal == u # <<>> /\ u[1] \in {"+", "-"}
        d == IF sinal THEN SubSeq(u, 2, Len(u)) ELSE u
    IN  IF d = <<>> \/ ~AllDigits(d) THEN [ok |-> FALSE, v |-> 0]
        ELSE [ok |-> TRUE, v |-> IF sinal /\ u[1] = "-" THEN 0 - NumVal(d) ELSE NumVal(d)]

\* line 144: inicio, fim = map(int, intervalo.split('-')); ok = FALSE is
\* the ValueError of int() or of the unpacking
ParseIntervalo(intervalo) ==
    LET partes == Split(intervalo, "-")
    IN  IF Len(partes) # 2 \/ ~PyInt(partes[1]).ok \/ ~PyInt(partes[2]).ok
        THEN [ok |-> FALSE, inicio |-> 0, fim |-> 0]
        ELSE [ok |-> TRUE, inicio |-> PyInt(partes[1]).v, fim |-> PyInt(partes[2]).v]

\* the range test without its upper limit
IntervaloValidoSemLimite(inicio, fim, total) == 1 <= inicio /\ inicio <= fim

\* line 145
IntervaloValido(inicio, fim, total) == 1 <= inicio /\ inicio <= fim /\ fim <= total

\* line 194
PaginaValida(num_pagina, total) == 1 <= num_pagina /\ num_pagina <= total

\* the positional names of lines 134, 160, 183 and 208
NomeParte(k) == <<"p", "a", "r", "t", "e", "_">> \o IntToStr(k)
NomeIntervalo(a, b) ==
    <<"i", "n", "t", "e", "r", "v", "a", "l", "o", "_">> \o IntToStr(a)
        \o <<"_", "a", "_">> \o IntToStr(b)
NomePagina(k) == <<"p", "a", "g", "i", "n", "a", "_">> \o IntToStr(k)

FALHA == [sucesso |-> FALSE, pdfs |-> <<>>]     \* (False, None), line 219

----------------------------------------------------------------------------
(* bounds and the inputs drawn from them *)

MaxPaginas == 3      \* pages of the source document: 0..MaxPaginas
MaxEntradas == 2     \* entries of intervalos / paginas: 0..MaxEntradas
MaxEntradasIA == 1   \* the same when the service names the outputs
MaxArquivos == 3     \* files uploaded to the rename or merge tab: 1..MaxArquivos
MaxAfixo == 2        \* characters around the filler of a long file name

SeqsAte(S, n) == UNION {[1..k -> S] : k \in 0..n}

\* formatar_data: day, month and year tokens joined by '/' or '-', in the
\* orders day-month-year and year-month-day, and inputs that are no date
TokensDia == {<<"5">>, <<"0", "5">>, <<"2", "9">>, <<"3", "1">>, <<"3", "2">>, <<" ", "5">>}
TokensMes == {<<"3">>, <<"0", "3">>, <<"0", "2">>, <<"1", "3">>}
TokensAno == {Pad2(y) : y \in 0..99}
                 \cup {<<"2", "0", "2", "4">>, <<"2", "0", "2", "3">>, <<"1", "9", "9", "9">>,
                       <<"0", "5", "0", "0">>, <<"0", "0", "9", "9">>, <<"0", "0", "0", "0">>,
                       <<"0", "2", "4">>}
NAO_E_DATA == <<"n", "o", "t", " ", "a", " ", "d", "a", "t", "e">>
EntradasData ==
    {PyStr(a \o <<sep>> \o b \o <<sep>> \o c) :
        a \in TokensDia, b \in TokensMes, c \in TokensAno, sep \in {"/", "-"}}
    \cup {PyStr(c \o <<sep>> \o b \o <<sep>> \o a) :
        a \in TokensDia \ {<<" ", "5">>}, b \in TokensMes, c \in TokensAno, sep \in {"/", "-"}}
    \cup {None, PyStr(<<>>), PyStr(NAO_E_DATA), PyNum(0), PyNum(2024)}

\* validar_nome_arquivo: short names over Alfabeto, and names of about
\* max_length characters: an affix, a filler of 'a', an affix
Alfabeto == {"a", " ", "\t", ":"}
Enchimento(k) == [i \in 1..k |-> "a"]
EntradasNome ==
    {a \o Enchimento(k) \o b :
        a \in SeqsAte(Alfabeto, MaxAfixo), b \in SeqsAte(Alfabeto, MaxAfixo),
        k \in {0} \cup ((max_length - MaxAfixo - 1)..(max_length + 1))}

\* dividir_pdf: the entries of intervalos and of paginas
EntradasIntervalo ==
    {IntToStr(a) \o <<"-">> \o IntToStr(b) : a \in 0..2, b \in 1..MaxPaginas}
    \cup {<<>>, <<"1">>, <<"a", "-", "b">>, <<"1", "-", "2", "-", "3">>, <<"1", " ", "-", "2">>}
EntradasPagina ==
    {IntToStr(a) : a \in 0..(MaxPaginas + 1)} \cup {<<>>, <<"x">>, <<"-", "1">>, <<" ", "2">>}

Opcoes(modo, n, intervalos, paginas) ==
    [modo |-> modo, paginas_por_arquivo |-> n, intervalos |-> intervalos, paginas |-> paginas]

EntradasOpcoes ==
    {Opcoes("paginas_fixas", n, <<>>, <<>>) : n \in 1..(MaxPaginas + 1)}
    \cup {Opcoes("intervalo_personalizado", 0, l, <<>>) : l \in SeqsAte(EntradasIntervalo, MaxEntradas)}
    \cup {Opcoes("paginas_individuais", 0, <<>>, <<>>)}
    \cup {Opcoes("extrair_paginas", 0, <<>>, l) : l \in SeqsAte(EntradasPagina, MaxEntradas)}

\* what the extraction service may answer for one unit
ANA == <<"A", "N", "A">>
A_BARRA_B == <<"A", "/", "B">>
DATA_BOA == <<"0", "5", "/", "0", "3", "/", "2", "0", "2", "4">>
DATA_CURTA == <<"5", "-", "3", "-", "2", "4">>
Respostas ==
    {Resposta("raise", NaoDict("none")), Resposta("not_json", NaoDict("none")),
     Resposta("json", NaoDict("list")), Resposta("json", NaoDict("str")),
     Resposta("json", NaoDict("num")),
     Resposta("json", Dict(TRUE, PyStr(ANA), TRUE, PyStr(DATA_BOA))),
     Resposta("json", Dict(TRUE, PyStr(A_BARRA_B), TRUE, PyStr(DATA_CURTA))),
     Resposta("json", Dict(TRUE, None, TRUE, PyStr(DATA_BOA))),
     Resposta("json", Dict(FALSE, None, TRUE, PyStr(DATA_BOA))),
     Resposta("json", Dict(TRUE, PyStr(ANA), TRUE, PyStr(NAO_E_DATA))),
     Resposta("json", Dict(TRUE, PyStr(ANA), TRUE, None)),
     Resposta("json", Dict(TRUE, PyStr(ANA), TRUE, PyNum(2024)))}

----------------------------------------------------------------------------
(* state *)

SEM_RETORNO == [sucesso |-> FALSE, pdfs |-> <<>>]

\* juntar_pdfs returned None (line 307), or has not returned
PDF_NENHUM == [ok |-> FALSE, paginas |-> <<>>]

Init ==
    /\ pc = "idle"
    /\ data_str = None
    /\ data_fmt = Returned(<<>>)
    /\ nome = <<>>
    /\ nome_limpo = <<>>
    /\ total_paginas = 0
    /\ opcoes_divisao = Opcoes("paginas_individuais", 0, <<>>, <<>>)
    /\ usar_ia = FALSE
    /\ cursor = 0
    /\ pdfs_divididos = <<>>
    /\ avisos = <<>>
    /\ respostas = <<>>
    /\ retorno = SEM_RETORNO
    /\ arquivos_aso = <<>>
    /\ todos_resultados = <<>>
    /\ origens = <<>>
    /\ thumbnails = <<>>
    /\ arquivos_juntar = <<>>
    /\ merger = <<>>
    /\ pdf_final = PDF_NENHUM

\* formatar_data(data_str) is called and returns or raises
ChamaFormatarData ==
    /\ pc = "idle"
    /\ \E x \in EntradasData, libc_pads_year \in BOOLEAN :
          /\ data_str' = x
          /\ data_fmt' = formatar_data(x, libc_pads_year)
    /\ pc' = "formatar_data"
    /\ UNCHANGED << nome, nome_limpo, total_paginas, opcoes_divisao, usar_ia, cursor,
                    pdfs_divididos, avisos, respostas, retorno, arquivos_aso,
                    todos_resultados, origens, thumbnails, arquivos_juntar, merger,
                    pdf_final >>

\* validar_nome_arquivo(nome) is called and returns
ChamaValidarNome ==
    /\ pc = "idle"
    /\ \E x \in EntradasNome :
          /\ nome' = x
          /\ nome_limpo' = validar_nome_arquivo(x)
    /\ pc' = "validar_nome_arquivo"
    /\ UNCHANGED << data_str, data_fmt, total_paginas, opcoes_divisao, usar_ia, cursor,
                    pdfs_divididos, avisos, respostas, retorno, arquivos_aso,
                    todos_resultados, origens, thumbnails, arquivos_juntar, merger,
                    pdf_final >>

----------------------------------------------------------------------------
(* dividir_pdf: one action per loop iteration, one for the return *)

Puros == << data_str, data_fmt, nome, nome_limpo >>
Renomear == << arquivos_aso, todos_resultados, origens, thumbnails >>
Juntar == << arquivos_juntar, merger, pdf_final >>

\* lines 107-112: the document is read and the mode chosen
dividir_pdf ==
    /\ pc = "idle"
    /\ \E p \in 0..MaxPaginas, o \in EntradasOpcoes, ia \in BOOLEAN :
          /\ ia => Len(o.intervalos) <= MaxEntradasIA /\ Len(o.paginas) <= MaxEntradasIA
          /\ total_paginas' = p
          /\ opcoes_divisao' = o
          /\ usar_ia' = ia
          /\ cursor' = IF o.modo \in {"paginas_fixas", "paginas_individuais"} THEN 0 ELSE 1
    /\ pdfs_divididos' = <<>>
    /\ pc' = "dividir"
    /\ UNCHANGED << Puros, Renomear, Juntar, avisos, respostas, retorno >>

\* no call of the service: usar_ia is off
SEM_RESPOSTA == Resposta("raise", NaoDict("none"))

\* one output is written and named (lines 123-138 and their copies): the
\* service is asked when usar_ia; an exception reaches line 217
EmiteUnidade(nome_padrao, paginas, proximo) ==
    \E resp \in (IF usar_ia THEN Respostas ELSE {SEM_RESPOSTA}), libc_pads_year \in BOOLEAN :
        LET r == nome_arquivo(usar_ia, resp, nome_padrao, libc_pads_year)
        IN  /\ respostas' = IF usar_ia THEN Append(respostas, resp) ELSE respostas
            /\ IF r.exc = "none"
               THEN /\ pdfs_divididos' =
                          Append(pdfs_divididos, [nome |-> r.v, conteudo |-> paginas])
                    /\ cursor' = proximo
                    /\ UNCHANGED << pc, retorno >>
               ELSE /\ pc' = "dividir_fim"
                    /\ retorno' = FALHA
                    /\ UNCHANGED << pdfs_divididos, cursor >>

\* lines 116-138, one pass of `for i in range(0, total_paginas, n)`
PassoPaginasFixas ==
    /\ pc = "dividir"
    /\ opcoes_divisao.modo = "paginas_fixas"
    /\ cursor < total_paginas
    /\ LET n == opcoes_divisao.paginas_por_arquivo
           fim == FimDoGrupo(cursor, n, total_paginas)
       IN  EmiteUnidade(NomeParte((cursor \div n) + 1), Paginas(cursor, fim), cursor + n)
    /\ UNCHANGED << Puros, Renomear, Juntar, total_paginas, opcoes_divisao, usar_ia, avisos >>

\* lines 142-166, one pass of `for idx, intervalo in enumerate(intervalos)`
PassoIntervalo ==
    /\ pc = "dividir"
    /\ opcoes_divisao.modo = "intervalo_personalizado"
    /\ cursor <= Len(opcoes_divisao.intervalos)
    /\ LET intervalo == opcoes_divisao.intervalos[cursor]
           par == ParseIntervalo(intervalo)
       IN  IF ~par.ok
           THEN /\ avisos' = Append(avisos, intervalo)
                /\ cursor' = cursor + 1
                /\ UNCHANGED << pc, pdfs_divididos, respostas, retorno >>
           ELSE IF IntervaloValido(par.inicio, par.fim, total_paginas)
           THEN /\ EmiteUnidade(NomeIntervalo(par.inicio, par.fim),
                                Paginas(par.inicio - 1, par.fim), cursor + 1)
                /\ UNCHANGED avisos
           ELSE /\ cursor' = cursor + 1
                /\ UNCHANGED << pc, pdfs_divididos, respostas, retorno, avisos >>
    /\ UNCHANGED << Puros, Renomear, Juntar, total_paginas, opcoes_divisao, usar_ia >>

\* lines 169-187, one pass of `for i in range(total_paginas)`
PassoPaginasIndividuais ==
    /\ pc = "dividir"
    /\ opcoes_divisao.modo = "paginas_individuais"
    /\ cursor < total_paginas
    /\ EmiteUnidade(NomePagina(cursor + 1), Paginas(cursor, cursor + 1), cursor + 1)
    /\ UNCHANGED << Puros, Renomear, Juntar, total_paginas, opcoes_divisao, usar_ia, avisos >>

\* lines 191-214, one pass of `for pagina in paginas`
PassoExtrairPaginas ==
    /\ pc = "dividir"
    /\ opcoes_divisao.modo = "extrair_paginas"
    /\ cursor <= Len(opcoes_divisao.paginas)
    /\ LET pagina == opcoes_divisao.paginas[cursor]
           num_pagina == PyInt(pagina)
       IN  IF ~num_pagina.ok
           THEN /\ avisos' = Append(avisos, pagina)
                /\ cursor' = cursor + 1
                /\ UNCHANGED << pc, pdfs_divididos, respostas, retorno >>
           ELSE IF PaginaValida(num_pagina.v, total_paginas)
           THEN /\ EmiteUnidade(NomePagina(num_pagina.v),
                                Paginas(num_pagina.v - 1, num_pagina.v), cursor + 1)
                /\ UNCHANGED avisos
           ELSE /\ cursor' = cursor + 1
                /\ UNCHANGED << pc, pdfs_divididos, respostas, retorno, avisos >>
    /\ UNCHANGED << Puros, Renomear, Juntar, total_paginas, opcoes_divisao, usar_ia >>

\* the loop of the chosen mode has no pass left
LacoTerminado ==
    CASE opcoes_divisao.modo \in {"paginas_fixas", "paginas_individuais"} ->
            cursor >= total_paginas
      [] opcoes_divisao.modo = "intervalo_personalizado" ->
            cursor > Len(opcoes_divisao.intervalos)
      [] OTHER -> cursor > Len(opcoes_divisao.paginas)

\* line 216: return True, pdfs_divididos
RetornaDividir ==
    /\ pc = "dividir"
    /\ LacoTerminado
    /\ retorno' = [sucesso |-> TRUE, pdfs |-> pdfs_divididos]
    /\ pc' = "dividir_fim"
    /\ UNCHANGED << Puros, Renomear, Juntar, total_paginas, opcoes_divisao, usar_ia, cursor,
                    pdfs_divididos, avisos, respostas >>

----------------------------------------------------------------------------
(* uploaded files as streams, and the bytes of a PDF *)

\* an uploaded file: its bytes and the position of the next read
Stream(b) == [bytes |-> b, pos |-> 0]

\* arquivo.read(): the bytes from the position to the end ...
Read(f) == SubSeq(f.bytes, f.pos + 1, Len(f.bytes))

\* ... and the position is left at the end
AposRead(f) == [f EXCEPT !.pos = Len(f.bytes)]

\* a seek that leaves the position where it is
RebobinaSemEfeito(f) == f

\* arquivo.seek(0), line 502
Rebobina(f) == [f EXCEPT !.pos = 0]

\* the bytes of a file: a header, the pages, a trailer; or anything else
Byte(tipo, d, k) == [tipo |-> tipo, doc |-> d, pag |-> k]
CABECALHO == Byte("cabecalho", 0, 0)
FIM == Byte("fim", 0, 0)
LIXO == Byte("lixo", 0, 0)
Pagina(d, k) == Byte("pagina", d, k)

\* the bytes of document d, of q pages
Documento(d, q) == <<CABECALHO>> \o [k \in 1..q |-> Pagina(d, k)] \o <<FIM>>

\* PyPDF2 reads the bytes: ok = FALSE stands for the exception it raises
\* on bytes that are no PDF (the empty file included)
LerPdf(b) ==
    IF /\ Len(b) >= 2
       /\ b[1] = CABECALHO
       /\ b[Len(b)] = FIM
       /\ \A k \in 2..(Len(b) - 1) : b[k].tipo = "pagina"
    THEN [ok |-> TRUE, paginas |-> SubSeq(b, 2, Len(b) - 1)]
    ELSE [ok |-> FALSE, paginas |-> <<>>]

\* what may be uploaded as file d to the merge tab: a document of
\* q <= MaxPaginas pages, bytes that are no PDF, or the empty file
ConteudoJuntar(d, q) ==
    IF q <= MaxPaginas THEN Documento(d, q)
    ELSE IF q = MaxPaginas + 1 THEN <<LIXO>> ELSE <<>>

----------------------------------------------------------------------------
(* the rename tab of main(), app.py 403-481 *)

Dividir == << total_paginas, opcoes_divisao, usar_ia, pdfs_divididos, avisos, retorno >>

\* what is uploaded as file k to the rename tab: a document of one page
ConteudoASO(k) == Documento(k, 1)

\* criar_thumbnail_pdf, lines 279-290: an image of the first page, or None
\* when the bytes are no PDF or the document has no page
criar_thumbnail_pdf(pdf_bytes) ==
    LET doc == LerPdf(pdf_bytes)
    IN  IF doc.ok /\ Len(doc.paginas) > 0
        THEN [t |-> "img", v |-> <<doc.paginas[1]>>]
        ELSE None

\* what the user may leave in the text input of line 456
NomesManuais == { <<>>, <<"a">> }

\* lines 415-423: files are uploaded, automatic mode is selected
EnviaArquivos ==
    /\ pc = "idle"
    /\ \E n \in 1..MaxArquivos :
          arquivos_aso' = [k \in 1..n |-> Stream(ConteudoASO(k))]
    /\ todos_resultados' = <<>>
    /\ origens' = <<>>
    /\ thumbnails' = <<>>
    /\ cursor' = 1
    /\ pc' = "renomear"
    /\ UNCHANGED << Puros, Dividir, Juntar, respostas >>

\* lines 431-445, one pass of `for i, arquivo in enumerate(arquivos_aso)`;
\* nothing catches an exception of dados.get or formatar_data here
PassoRenomear ==
    /\ pc = "renomear"
    /\ cursor <= Len(arquivos_aso)
    /\ \E resp \in Respostas, libc_pads_year \in BOOLEAN :
          LET arquivo_bytes == Read(arquivos_aso[cursor])
              r == novo_nome(resp, libc_pads_year)
          IN  /\ respostas' = Append(respostas, resp)
              /\ IF r.exc = "none"
                 THEN /\ todos_resultados' =
                            Append(todos_resultados, renomear_arquivo(arquivo_bytes, r.v))
                      /\ origens' = Append(origens, cursor)
                      /\ cursor' = cursor + 1
                      /\ UNCHANGED pc
                 ELSE IF r.exc = "descartado"
                 THEN /\ cursor' = cursor + 1
                      /\ UNCHANGED << pc, todos_resultados, origens >>
                 ELSE /\ pc' = "renomear_erro"
                      /\ UNCHANGED << cursor, todos_resultados, origens >>
    /\ arquivos_aso' = [arquivos_aso EXCEPT ![cursor] = AposRead(@)]
    /\ UNCHANGED << Puros, Dividir, Juntar, thumbnails >>

\* lines 465-481: the results are offered for download
TerminaRenomear ==
    /\ pc = "renomear"
    /\ cursor > Len(arquivos_aso)
    /\ pc' = "renomear_fim"
    /\ UNCHANGED << Puros, Dividir, Juntar, Renomear, cursor, respostas >>

\* lines 415-423: files are uploaded, manual mode is selected
EnviaArquivosManual ==
    /\ pc = "idle"
    /\ \E n \in 1..MaxArquivos :
          arquivos_aso' = [k \in 1..n |-> Stream(ConteudoASO(k))]
    /\ todos_resultados' = <<>>
    /\ origens' = <<>>
    /\ thumbnails' = <<>>
    /\ cursor' = 1
    /\ pc' = "renomear_manual"
    /\ UNCHANGED << Puros, Dividir, Juntar, respostas >>

\* lines 448-463, one pass of `for arquivo in arquivos_aso`: the file is
\* read for the thumbnail (451) and read again for the output (462)
PassoRenomearManual ==
    /\ pc = "renomear_manual"
    /\ cursor <= Len(arquivos_aso)
    /\ \E nome_novo \in NomesManuais :
          LET arquivo == arquivos_aso[cursor]
              thumbnail == criar_thumbnail_pdf(Read(arquivo))
              lido == AposRead(arquivo)
          IN  /\ thumbnails' = Append(thumbnails, thumbnail)
              /\ IF nome_novo # <<>>
                 THEN /\ todos_resultados' =
                            Append(todos_resultados, renomear_arquivo(Read(lido), nome_novo))
                      /\ origens' = Append(origens, cursor)
                      /\ arquivos_aso' = [arquivos_aso EXCEPT ![cursor] = AposRead(lido)]
                 ELSE /\ arquivos_aso' = [arquivos_aso EXCEPT ![cursor] = lido]
                      /\ UNCHANGED << todos_resultados, origens >>
    /\ cursor' = cursor + 1
    /\ UNCHANGED << Puros, Dividir, Juntar, pc, respostas >>

\* lines 465-481: the results are offered for download
TerminaRenomearManual ==
    /\ pc = "renomear_manual"
    /\ cursor > Len(arquivos_aso)
    /\ pc' = "renomear_manual_fim"
    /\ UNCHANGED << Puros, Dividir, Juntar, Renomear, cursor, respostas >>

----------------------------------------------------------------------------
(* the merge tab of main() and juntar_pdfs, app.py 292-307 and 483-518 *)

Outros == << Puros, Dividir, Renomear, respostas >>

\* lines 485-493: files are uploaded
EnviaParaJuntar ==
    /\ pc = "idle"
    /\ \E n \in 1..MaxArquivos :
          \E qs \in [1..n -> 0..(MaxPaginas + 2)] :
              arquivos_juntar' = [d \in 1..n |-> Stream(ConteudoJuntar(d, qs[d]))]
    /\ pc' = "juntar_enviado"
    /\ UNCHANGED << Outros, cursor, merger, pdf_final >>

\* lines 497-502: every file is read for its thumbnail and rewound
MostraPreviews ==
    /\ pc = "juntar_enviado"
    /\ arquivos_juntar' =
          [d \in 1..Len(arquivos_juntar) |-> Rebobina(AposRead(arquivos_juntar[d]))]
    /\ pc' = "juntar_pronto"
    /\ UNCHANGED << Outros, cursor, merger, pdf_final >>

\* lines 509-510 and 294: the button calls juntar_pdfs
juntar_pdfs ==
    /\ pc = "juntar_pronto"
    /\ merger' = <<>>
    /\ cursor' = 1
    /\ pc' = "juntar"
    /\ UNCHANGED << Outros, arquivos_juntar, pdf_final >>

\* lines 297-299 and 305-307, one pass of `for arquivo in arquivos_pdf`:
\* the file is read and appended; an exception returns None
PassoJuntar ==
    /\ pc = "juntar"
    /\ cursor <= Len(arquivos_juntar)
    /\ LET arquivo == arquivos_juntar[cursor]
           pdf == LerPdf(Read(arquivo))
       IN  /\ arquivos_juntar' = [arquivos_juntar EXCEPT ![cursor] = AposRead(arquivo)]
           /\ IF pdf.ok
              THEN /\ merger' = merger \o pdf.paginas
                   /\ cursor' = cursor + 1
                   /\ UNCHANGED << pc, pdf_final >>
              ELSE /\ pdf_final' = PDF_NENHUM
                   /\ pc' = "juntar_fim"
                   /\ UNCHANGED << merger, cursor >>
    /\ UNCHANGED Outros

\* lines 301-304: the merged document is written and returned
RetornaJuntar ==
    /\ pc = "juntar"
    /\ cursor > Len(arquivos_juntar)
    /\ pdf_final' = [ok |-> TRUE, paginas |-> merger]
    /\ pc' = "juntar_fim"
    /\ UNCHANGED << Outros, arquivos_juntar, merger, cursor >>

----------------------------------------------------------------------------
(* specifications *)

\* the split pipeline and the batch rename
Next ==
    \/ dividir_pdf
    \/ PassoPaginasFixas
    \/ PassoIntervalo
    \/ PassoPaginasIndividuais
    \/ PassoExtrairPaginas
    \/ RetornaDividir
    \/ EnviaArquivos
    \/ PassoRenomear
    \/ TerminaRenomear
    \/ EnviaArquivosManual
    \/ PassoRenomearManual
    \/ TerminaRenomearManual
    \/ EnviaParaJuntar
    \/ MostraPreviews
    \/ juntar_pdfs
    \/ PassoJuntar
    \/ RetornaJuntar

Spec == Init /\ [][Next]_vars

\* the date normaliser alone
NextData == ChamaFormatarData

SpecData == Init /\ [][NextData]_vars

\* the file-name sanitiser alone
NextNome == ChamaValidarNome

SpecNome == Init /\ [][NextNome]_vars

----------------------------------------------------------------------------
(* properties *)

Modo == opcoes_divisao.modo
EmDividir == pc \in {"dividir", "dividir_fim"}

\* the source pages a..b in source order
PaginasDe(a, b) == [j \in 1..(b - a + 1) |-> a + j - 1]

RECURSIVE Concatena(_)
Concatena(units) ==
    IF units = <<>> THEN <<>> ELSE Head(units).conteudo \o Concatena(Tail(units))

Teto(p, n) == (p + n - 1) \div n

\* a response on which naming the unit raises: JSON that is no object, or
\* an object whose data is a number
RespostaQueLanca(resp) ==
    /\ resp.kind = "json"
    /\ \/ resp.dados.t # "dict"
       \/ resp.dados.tem_data /\ resp.dados.data.t = "num" /\ resp.dados.data.v # 0

\* dividir_pdf returned (False, None) and the last answer of the service,
\* under AI naming, is what made it do so
AbortadoPelaExtracao ==
    usar_ia /\ respostas # <<>> /\ RespostaQueLanca(respostas[Len(respostas)])

\* C1: in mode paginas_fixas with n pages per file on a p-page document,
\* output k holds the pages (k-1)*n+1 .. min(k*n, p) in source order at every
\* point of the run; a run that returns success returns exactly ceil(p/n)
\* outputs, each of at most n pages, which together are the pages 1..p once
\* each; the only runs that do not return success are those under AI naming
\* whose last extraction answer made the naming raise.
C1_PaginasFixas ==
    (EmDividir /\ Modo = "paginas_fixas") =>
        LET n == opcoes_divisao.paginas_por_arquivo
            p == total_paginas
        IN  /\ \A k \in 1..Len(pdfs_divididos) :
                  pdfs_divididos[k].conteudo = PaginasDe((k - 1) * n + 1, Min(k * n, p))
            /\ (pc = "dividir_fim" /\ retorno.sucesso) =>
                  /\ retorno.pdfs = pdfs_divididos
                  /\ Len(retorno.pdfs) = Teto(p, n)
                  /\ \A k \in 1..Len(retorno.pdfs) : Len(retorno.pdfs[k].conteudo) <= n
                  /\ Concatena(retorno.pdfs) = PaginasDe(1, p)
            /\ (pc = "dividir_fim" /\ ~retorno.sucesso) => AbortadoPelaExtracao

\* a 3-page document split two by two returned two outputs, the last shorter
C1_Witness ==
    /\ pc = "dividir_fim" /\ Modo = "paginas_fixas" /\ retorno.sucesso
    /\ total_paginas = 3 /\ opcoes_divisao.paginas_por_arquivo = 2
    /\ Len(retorno.pdfs) = 2
    /\ retorno.pdfs[2].conteudo = <<3>>

\* an entry is valid: it reads as start-end with 1 <= start <= end <= p
EntradaIntervaloValida(e) ==
    LET par == ParseIntervalo(e)
    IN  par.ok /\ 1 <= par.inicio /\ par.inicio <= par.fim /\ par.fim <= total_paginas

\* C2: in mode intervalo_personalizado the outputs are, at every point of the
\* run, those of the valid entries among the entries already passed, in the
\* order given (not sorted, not deduplicated), the output of (start, end)
\* holding the pages start..end in source order; a run that returns success
\* returns them for the whole list; the only runs that do not return success
\* are those under AI naming whose last extraction answer made the naming raise.
C2_Intervalos ==
    (EmDividir /\ Modo = "intervalo_personalizado") =>
        LET passados == SubSeq(opcoes_divisao.intervalos, 1, cursor - 1)
            validos == SelectSeq(passados, EntradaIntervaloValida)
        IN  /\ Len(pdfs_divididos) = Len(validos)
            /\ \A k \in 1..Len(validos) :
                  pdfs_divididos[k].conteudo =
                      PaginasDe(ParseIntervalo(validos[k]).inicio, ParseIntervalo(validos[k]).fim)
            /\ (pc = "dividir_fim" /\ retorno.sucesso) =>
                  /\ retorno.pdfs = pdfs_divididos
                  /\ cursor = Len(opcoes_divisao.intervalos) + 1
            /\ (pc = "dividir_fim" /\ ~retorno.sucesso) => AbortadoPelaExtracao

\* two overlapping ranges given in descending order came out in that order
C2_Witness ==
    /\ pc = "dividir_fim" /\ Modo = "intervalo_personalizado" /\ retorno.sucesso
    /\ Len(opcoes_divisao.intervalos) = 2
    /\ Len(retorno.pdfs) = 2
    /\ retorno.pdfs[1].conteudo = <<2, 3>>
    /\ retorno.pdfs[2].conteudo = <<1, 2>>

EntradaIntervaloIgnorada(e) == ~EntradaIntervaloValida(e)

EntradaPaginaIgnorada(e) ==
    ~(PyInt(e).ok /\ 1 <= PyInt(e).v /\ PyInt(e).v <= total_paginas)

\* C3: in modes intervalo_personalizado and extrair_paginas the warnings
\* surfaced are exactly the skipped entries among those already passed, in
\* order; a skipped entry does not stop the loop; and the run with positional
\* naming returns success with the outputs of the valid entries.
C3_EntradaIgnoradaAvisada ==
    (EmDividir /\ Modo \in {"intervalo_personalizado", "extrair_paginas"}) =>
        LET entradas == IF Modo = "intervalo_personalizado"
                        THEN opcoes_divisao.intervalos ELSE opcoes_divisao.paginas
            passadas == SubSeq(entradas, 1, cursor - 1)
            ignoradas == IF Modo = "intervalo_personalizado"
                         THEN SelectSeq(passadas, EntradaIntervaloIgnorada)
                         ELSE SelectSeq(passadas, EntradaPaginaIgnorada)
        IN  /\ avisos = ignoradas
            /\ (pc = "dividir_fim" /\ ~usar_ia) =>
                  /\ retorno.sucesso
                  /\ cursor = Len(entradas) + 1
                  /\ Len(retorno.pdfs) = Len(entradas) - Len(ignoradas)

DATA_05032024 == <<"0", "5", "0", "3", "2", "0", "2", "4">>
DATA_ISO == <<"2", "0", "2", "4", "-", "0", "3", "-", "0", "5">>

\* C4: formatar_data returns "05032024" for "05/03/2024", for "5-3-24"
\* and for "2024-03-05".
C4_TresFormatos ==
    (pc = "formatar_data"
        /\ data_str \in {PyStr(DATA_BOA), PyStr(DATA_CURTA), PyStr(DATA_ISO)}) =>
        data_fmt = Returned(DATA_05032024)

\* the input is day/month/yy with a two-digit year, whichever separator
AnoDeDoisDigitos(x) ==
    /\ x.t = "str"
    /\ LET partes == Split(Replace(x.v, "-", "/"), "/")
       IN  Len(partes) = 3 /\ Len(partes[3]) = 2 /\ AllDigits(partes[3])

\* C5: every day/month/yy input that formatar_data parses comes out with
\* the year 2000 + yy.
C5_AnoNosDoisMil ==
    (pc = "formatar_data" /\ AnoDeDoisDigitos(data_str)
        /\ data_fmt.exc = "none" /\ data_fmt.v # DATA_SENTINELA) =>
        LET partes == Split(Replace(data_str.v, "-", "/"), "/")
        IN  SubSeq(data_fmt.v, 5, Len(data_fmt.v)) = IntToStr(2000 + NumVal(partes[3]))

\* C6: for a string or absent input formatar_data does not raise and its
\* result has exactly 8 characters: the sentinel for "", None and
\* "not a date", and otherwise either the sentinel or 8 digits.
C6_OitoCaracteres ==
    (pc = "formatar_data" /\ data_str.t \in {"none", "str"}) =>
        /\ data_fmt.exc = "none"
        /\ Len(data_fmt.v) = 8
        /\ data_str \in {None, PyStr(<<>>), PyStr(NAO_E_DATA)} => data_fmt.v = DATA_SENTINELA
        /\ data_fmt.v # DATA_SENTINELA => AllDigits(data_fmt.v)

\* C7: the result of validar_nome_arquivo has at most 240 characters, none
\* of them illegal, no two whitespace characters in a row, and no whitespace
\* at either end.
C7_NomeLimpo ==
    (pc = "validar_nome_arquivo") =>
        /\ Len(nome_limpo) <= 240
        /\ \A k \in 1..Len(nome_limpo) : ~CaractereIlegal(nome_limpo[k])
        /\ \A k \in 1..(Len(nome_limpo) - 1) :
              ~(IsSpace(nome_limpo[k]) /\ IsSpace(nome_limpo[k + 1]))
        /\ nome_limpo # <<>> =>
              ~IsSpace(nome_limpo[1]) /\ ~IsSpace(nome_limpo[Len(nome_limpo)])

\* the name ends in ".pdf" and what precedes it is its own sanitized form
NomeSaneado(n) ==
    /\ Len(n) >= Len(PDF)
    /\ SubSeq(n, Len(n) - Len(PDF) + 1, Len(n)) = PDF
    /\ LET base == SubSeq(n, 1, Len(n) - Len(PDF))
       IN  /\ validar_nome_arquivo(base) = base
           /\ \A k \in 1..Len(base) : ~CaractereIlegal(base[k])

\* C8: every output unit of the split pipeline and of the batch rename has
\* a sanitized name ending in ".pdf", whatever the service answered.
C8_NomesSaneados ==
    /\ \A k \in 1..Len(pdfs_divididos) : NomeSaneado(pdfs_divididos[k].nome)
    /\ \A k \in 1..Len(todos_resultados) : NomeSaneado(todos_resultados[k].nome)

\* the extraction of this answer gives no usable name or no usable date
SemNomeOuData(resp) ==
    LET dados == extrair_informacoes_gemini(resp)
    IN  /\ dados.t = "dict"
        /\ \/ ~dados.tem_nome
           \/ dados.nome = None
           \/ ~dados.tem_data
           \/ dados.data = None
           \/ dados.data = PyStr(NAO_E_DATA)

ComecaComASO(n) == Len(n) >= 3 /\ SubSeq(n, 1, 3) = ASO

\* C9: under AI naming a unit whose extraction gives no name or no date is
\* not named "ASO ..." and is not dropped: in the split pipeline and in the
\* batch rename there is one output per unit processed.
C9_NenhumaUnidadePerdida ==
    /\ (EmDividir /\ usar_ia) =>
          /\ \A k \in 1..Len(pdfs_divididos) :
                SemNomeOuData(respostas[k]) => ~ComecaComASO(pdfs_divididos[k].nome)
          /\ Modo = "paginas_individuais" => Len(pdfs_divididos) = cursor
          /\ Modo = "paginas_fixas" =>
                Len(pdfs_divididos) = Teto(Min(cursor, total_paginas),
                                           opcoes_divisao.paginas_por_arquivo)
    /\ pc \in {"renomear", "renomear_fim"} =>
          /\ Len(todos_resultados) = cursor - 1
          /\ \A k \in 1..Len(todos_resultados) :
                todos_resultados[k].conteudo = arquivos_aso[k].bytes

\* the external extraction failed: the call raised, the answer is not JSON,
\* or it is JSON but not an object
FalhaDeExtracao(resp) ==
    \/ resp.kind \in {"raise", "not_json"}
    \/ resp.kind = "json" /\ resp.dados.t # "dict"

\* an object whose fields, when present, are strings or null
ObjetoBemFormado(resp) ==
    /\ resp.kind = "json" /\ resp.dados.t = "dict"
    /\ resp.dados.nome.t \in {"none", "str"}
    /\ resp.dados.data.t \in {"none", "str"}

\* C10: whichever units' extractions fail, dividir_pdf returns success with
\* one output per unit, the failed units under their positional names.
C10_FalhaNaoPropaga ==
    (pc = "dividir_fim" /\ usar_ia
        /\ \A k \in 1..Len(respostas) :
              FalhaDeExtracao(respostas[k]) \/ ObjetoBemFormado(respostas[k])) =>
        /\ retorno.sucesso
        /\ Len(retorno.pdfs) = Len(respostas)
        /\ \A k \in 1..Len(respostas) :
              FalhaDeExtracao(respostas[k]) => ~ComecaComASO(retorno.pdfs[k].nome)

EPagina(b) == b.tipo = "pagina"

\* the bytes of the uploaded files, one after the other
RECURSIVE TodosOsBytes(_)
TodosOsBytes(arquivos) ==
    IF arquivos = <<>> THEN <<>>
    ELSE Head(arquivos).bytes \o TodosOsBytes(Tail(arquivos))

\* the file's bytes are those of a document: header, pages, trailer
ArquivoValido(f) ==
    /\ Len(f.bytes) >= 2
    /\ f.bytes[1] = CABECALHO /\ f.bytes[Len(f.bytes)] = FIM
    /\ \A k \in 2..(Len(f.bytes) - 1) : EPagina(f.bytes[k])

\* C11: juntar_pdfs returns, for inputs that are all valid documents, the
\* pages of the first input in order, then those of the second, and so on;
\* and when any input, at any position, is no valid document it returns
\* None; while it runs the merger holds the pages of the files passed.
C11_JuntarOrdenadoOuNada ==
    /\ pc = "juntar" =>
          merger = SelectSeq(TodosOsBytes(SubSeq(arquivos_juntar, 1, cursor - 1)), EPagina)
    /\ pc = "juntar_fim" =>
          IF \A d \in 1..Len(arquivos_juntar) : ArquivoValido(arquivos_juntar[d])
          THEN /\ pdf_final.ok
               /\ pdf_final.paginas = SelectSeq(TodosOsBytes(arquivos_juntar), EPagina)
          ELSE pdf_final = PDF_NENHUM

\* documents of 2, 3 and 1 pages were merged into six pages in that order
C11_Witness ==
    /\ pc = "juntar_fim" /\ pdf_final.ok
    /\ Len(arquivos_juntar) = 3
    /\ pdf_final.paginas = << Pagina(1, 1), Pagina(1, 2), Pagina(2, 1), Pagina(2, 2),
                              Pagina(2, 3), Pagina(3, 1) >>

\* every output was made from an uploaded file and holds exactly its bytes
ConteudoIntacto ==
    /\ Len(origens) = Len(todos_resultados)
    /\ \A k \in 1..Len(todos_resultados) :
          /\ origens[k] \in 1..Len(arquivos_aso)
          /\ todos_resultados[k].conteudo = arquivos_aso[origens[k]].bytes

\* C12: in the rename tab, in the automatic and in the manual mode, the
\* bytes of every output are the bytes of the uploaded file it was made from.
C12_ConteudoIdentico ==
    pc \in {"renomear", "renomear_erro", "renomear_fim",
            "renomear_manual", "renomear_manual_fim"} => ConteudoIntacto

\* the automatic mode alone does keep the bytes
ConteudoIdenticoAutomatico ==
    pc \in {"renomear", "renomear_erro", "renomear_fim"} => ConteudoIntacto

\* an output of the automatic mode exists
SaidaAutomatica == pc = "renomear_fim" /\ Len(todos_resultados) = Len(arquivos_aso)

\* an output of the manual mode that is empty although its thumbnail was made
SaidaManualVazia ==
    /\ pc = "renomear_manual_fim"
    /\ \E k \in 1..Len(todos_resultados) :
          /\ todos_resultados[k].conteudo = <<>>
          /\ thumbnails[origens[k]].t = "img"

====
